---- MODULE Spec2Model ----
(***************************************************************************)
(* Scroll / reveal / drag coordination of the Surya Hospital site scripts. *)
(*                                                                         *)
(* The repository ships three page scripts, each one DOMContentLoaded      *)
(* closure; a page loads one of them:                                      *)
(*   "portfolio"   src/script.js lines 1-272                               *)
(*   "production"  src/script.js lines 273-553                             *)
(*   "health"      src/unnamed/part_000                                    *)
(* Strings that the code inspects character by character (section ids,     *)
(* link hrefs) are sequences of one-character strings.                     *)
(***************************************************************************)
EXTENDS Integers, Sequences, FiniteSets, TLC

(***************************************************************************)
(* Bounds of the model.                                                    *)
(***************************************************************************)
MaxSections == 2
MaxNotifies == 2
NumReveals == 2
MaxBatch == 2
MaxScrollLeft == 160
MaxRotateTimers == 2
MaxPathLen == 4

(***************************************************************************)
(* Constants of the scripts.                                               *)
(***************************************************************************)
scrollThreshold == 20
healthScrollThreshold == 100
indicatorHideThreshold == 100
backToTopThreshold == 300
breakpoint == 768
portfolioSpyOffset == 150
dragSpeed == 2
headerOffset == 90
Undefined == -1

Scripts == {"portfolio", "production", "health"}
SpyScripts == {"portfolio", "production"}

(***************************************************************************)
(* Values the environment supplies.                                        *)
(***************************************************************************)
ScrollPositions == {0, 20, 21, 100, 101, 400, 600, 1000}
Tops == {0, 500, 1000}
ViewportHeights == {0, 300}
ViewportWidths == {768, 1024}
RevealScrollPositions == {0, 600}
PageXs == {30, 50, 70}
OffsetLefts == {0, 20}
ContainerOffsets == {0, 100}

\* No entry handled yet: element 0 is no element of any page.
NoEntry == [target |-> 0, isIntersecting |-> FALSE]

Chars == <<"a", "b", "c", "d", "e", "f">>
SecId(i) == <<Chars[i]>>
Hash == <<"#">>
EmptyStr == <<>>

\* The navigation links of a page: one same-page link per possible section,
\* followed by one link to another page.
NumLinks == MaxSections + 1
ExternalLink == NumLinks
Href(i) == IF i <= MaxSections THEN Hash \o SecId(i) ELSE <<"p">>

\* The section layouts: sections[i] is the offsetTop of the i-th section[id]
\* element in document order, SecId(i) its id.
Layouts == UNION {[1..n -> Tops] : n \in 0..MaxSections}

VARIABLES
    script,             \* which script the page loads
    header,             \* DOM.header is present
    scrollIndicator,    \* DOM.scrollIndicator is present
    backToTopButton,    \* backToTopButton is present
    sections,           \* offsetTop of each section[id], in document order
    innerWidth,         \* window.innerWidth
    innerHeight,        \* window.innerHeight
    scrollY,            \* window.scrollY
    scrollPending,      \* the platform has scrolled and not yet fired 'scroll'
    headerScrolled,     \* header.classList contains 'scrolled'
    indicatorOpacity,   \* scrollIndicator.style.opacity
    backToTopVisible,   \* backToTopButton.classList contains 'visible'
    linkActive,         \* linkActive[i]: nav link i carries class 'active'
    currentId,          \* value of highlightNav's currentId when it last derived it
    notifies,           \* 'scroll' events dispatched in the current display frame
    evals,              \* runs of handleScroll in the current display frame
    reveals,            \* DOM.reveals, the observed elements
    revealHidden,       \* element carries class 'reveal-hidden'
    revealVisible,      \* element carries class 'reveal-visible'
    observed,           \* element is registered with revealObserver
    lastEntry,          \* the entry the observer callback handled last
    lastDuplicate,      \* that entry was intersecting for a target already revealed
    scrollContainer,    \* DOM.scrollContainer is present
    offsetLeft,         \* scrollContainer.offsetLeft
    containerScrollLeft,\* scrollContainer.scrollLeft
    cursor,             \* scrollContainer.style.cursor
    isDown,             \* let isDown
    startX,             \* let startX
    scrollLeft,         \* let scrollLeft
    lastPointer,        \* most recent of mousedown / mouseup / mouseleave
    downX,              \* pointer x (container-relative) at the last mousedown
    downOffset,         \* region offset at the last mousedown
    moveX,              \* pointer x (container-relative) of the last mousemove
    assigned,           \* value the last mousemove handler assigned to scrollLeft
    mobileMenu,         \* DOM.mobileMenu (health: mobileNav) is present
    mobileToggle,       \* DOM.mobileToggle (health: navToggle) is present
    mobileClose,        \* DOM.mobileClose is present
    overlay,            \* DOM.overlay is present
    menuOpen,           \* mobileMenu carries 'active' (health: mobileNav 'is-open')
    overlayActive,      \* overlay carries 'active'
    bodyLocked,         \* body.style.overflow is 'hidden' (health: body 'nav-open')
    ariaExpanded,       \* the toggle's aria-expanded attribute, "none" if absent
    scrollTimers,       \* targets of the pending setTimeout scrolls (health)
    wasOpen,            \* the menu was marked open when the last menu handler began
    themeBtn,           \* DOM.themeBtn is present
    themeIconLight,     \* DOM.themeIconLight is present
    themeIconDark,      \* DOM.themeIconDark is present
    prefersDark,        \* matchMedia('(prefers-color-scheme: dark)').matches
    storedTheme,        \* localStorage item 'theme', Null if there is none
    dataTheme,          \* data-theme attribute of the html element
    iconLightDisplay,   \* themeIconLight.style.display
    iconDarkDisplay,    \* themeIconDark.style.display
    btnTransform,       \* themeBtn.style.transform
    rotateTimers,       \* pending setTimeout callbacks of the theme button
    storedAtLoad,       \* what localStorage.getItem('theme') returned at load
    themeTrail,         \* data-theme before each of the last two clicks since load
    langBtn,            \* DOM.langBtn is present
    langText,           \* DOM.langText is present
    pathname,           \* window.location.pathname, a sequence of characters
    langTextContent,    \* langText.textContent, "" while the script has not set it
    pathTrail,          \* pathname before each of the last two language clicks
    raised,             \* a handler has thrown a TypeError
    lastOp              \* the event handled last

pageVars == <<script, header, scrollIndicator, backToTopButton, sections,
              innerWidth, innerHeight>>
scrollVars == <<scrollY, scrollPending, headerScrolled, indicatorOpacity,
                backToTopVisible, linkActive, currentId, notifies, evals>>
revealVars == <<reveals, revealHidden, revealVisible, observed, lastEntry,
                lastDuplicate>>
dragVars == <<scrollContainer, offsetLeft, containerScrollLeft, cursor, isDown,
              startX, scrollLeft, lastPointer, downX, downOffset, moveX, assigned>>
menuVars == <<mobileMenu, mobileToggle, mobileClose, overlay, menuOpen,
              overlayActive, bodyLocked, ariaExpanded, scrollTimers, wasOpen>>
themeVars == <<themeBtn, themeIconLight, themeIconDark, prefersDark, storedTheme,
               dataTheme, iconLightDisplay, iconDarkDisplay, btnTransform,
               rotateTimers, storedAtLoad, themeTrail>>
langVars == <<langBtn, langText, pathname, langTextContent, pathTrail>>
vars == <<pageVars, scrollVars, revealVars, dragVars, menuVars, themeVars,
          langVars, raised, lastOp>>

(***************************************************************************)
(* Optional elements.                                                      *)
(***************************************************************************)
\* A statement that dereferences the element without testing it.
Unguarded(present) == TRUE

\* if (DOM.header) / if (header)
HeaderGuard(present) == present

\* if (DOM.scrollIndicator)
IndicatorGuard(present) == present

\* if (backToTopButton)
BackToTopGuard(present) == present

\* if (DOM.scrollContainer)
ContainerGuard(present) == present

\* A member access on the result of a querySelector that found nothing
\* throws a TypeError.
Throws(reached, present) == reached /\ ~present

(***************************************************************************)
(* Theme engine.                                                           *)
(***************************************************************************)
\* localStorage.getItem returns null for a key that was never set.
Null == "null"

\* The values the scripts ever store.
Themes == {"dark", "light"}

\* matches ? 'dark' : 'light'
SystemPref(dark) == IF dark THEN "dark" ELSE "light"

\* savedTheme || systemPref
CurrentTheme(saved, dark) ==
    IF saved = Null \/ saved = "" THEN SystemPref(dark) ELSE saved

\* current === 'dark' ? 'light' : 'dark'
NextTheme(current) == IF current = "dark" THEN "light" ELSE "dark"

\* updateThemeIcons
UpdateThemeIcons(st, theme, hasLight, hasDark) ==
    IF ~hasDark \/ ~hasLight THEN st
    ELSE IF theme = "dark"
    THEN [st EXCEPT !.light = "none", !.dark = "block"]
    ELSE [st EXCEPT !.light = "block", !.dark = "none"]

\* An applyTheme that does not persist the theme.
ApplyThemeNoStore(st, theme, hasLight, hasDark) ==
    UpdateThemeIcons([st EXCEPT !.attr = theme], theme, hasLight, hasDark)

\* applyTheme
ApplyTheme(st, theme, hasLight, hasDark) ==
    UpdateThemeIcons([st EXCEPT !.attr = theme, !.stored = theme],
                     theme, hasLight, hasDark)

\* initTheme on a freshly parsed page: no data-theme attribute and no
\* inline display style yet.
InitThemeState(saved, dark, hasLight, hasDark) ==
    ApplyTheme([attr |-> Null, stored |-> saved, light |-> "", dark |-> ""],
               CurrentTheme(saved, dark), hasLight, hasDark)

LoadTheme(st) ==
    /\ dataTheme = st.attr
    /\ storedTheme = st.stored
    /\ iconLightDisplay = st.light
    /\ iconDarkDisplay = st.dark

InitTheme ==
    /\ themeBtn \in BOOLEAN
    /\ themeIconLight \in BOOLEAN
    /\ themeIconDark \in BOOLEAN
    /\ prefersDark \in BOOLEAN
    /\ storedAtLoad \in Themes \cup {Null}
    /\ LoadTheme(InitThemeState(storedAtLoad, prefersDark,
                                themeIconLight, themeIconDark))
    /\ btnTransform = ""
    /\ rotateTimers = 0
    /\ themeTrail = <<>>

\* One representative theme configuration for the pages on which the theme
\* is not exercised.
InitThemeFixed ==
    /\ InitTheme
    /\ themeBtn /\ themeIconLight /\ themeIconDark
    /\ ~prefersDark
    /\ storedAtLoad = Null

(***************************************************************************)
(* Language toggle (portfolio script): folder redirection.  Paths are      *)
(* sequences of one-character strings.                                     *)
(***************************************************************************)
PathChars == {"/", "h", "i", "x"}
Slash == <<"/">>
HiPrefix == <<"/", "h", "i">>
HiFolder == <<"/", "h", "i", "/">>
IndexHtml == <<"/", "i", "n", "d", "e", "x", ".", "h", "t", "m", "l">>

\* String.prototype.startsWith
StartsWith(s, pat) == Len(s) >= Len(pat) /\ SubSeq(s, 1, Len(pat)) = pat

Occurrences(s, pat) ==
    {i \in 1..(Len(s) - Len(pat) + 1) : SubSeq(s, i, i + Len(pat) - 1) = pat}

\* String.prototype.includes
Includes(h, sub) ==
    \E k \in 0..(Len(h) - Len(sub)) : SubSeq(h, k + 1, k + Len(sub)) = sub

\* String.prototype.replace with a string pattern: the first occurrence only.
ReplaceFirst(s, pat, by) ==
    IF ~Includes(s, pat) THEN s
    ELSE LET i == CHOOSE k \in Occurrences(s, pat) :
                      \A j \in Occurrences(s, pat) : k <= j
         IN SubSeq(s, 1, i - 1) \o by \o SubSeq(s, i + Len(pat), Len(s))

\* const isHindi = currentPath.includes('/hi/')
IsHindi(path) == Includes(path, HiFolder)

\* DOM.langText.textContent = isHindi ? 'EN' : 'HI'
LangText(hindi) == IF hindi THEN "EN" ELSE "HI"

\* newPath = currentPath.replace('/hi', ''); href = newPath || '/'
SwitchToEnglish(path) ==
    LET newPath == ReplaceFirst(path, HiPrefix, EmptyStr)
    IN IF newPath = EmptyStr THEN Slash ELSE newPath

SwitchToHindiNoRootCase(path) ==
    HiPrefix \o (IF ~StartsWith(path, Slash) THEN Slash \o path ELSE path)

\* href = '/hi' + pathSegment
SwitchToHindi(path) ==
    LET rooted == IF path = Slash \/ path = EmptyStr THEN IndexHtml ELSE path
        pathSegment == IF ~StartsWith(rooted, Slash) THEN Slash \o rooted
                       ELSE rooted
    IN HiPrefix \o pathSegment

\* The value the click handler assigns to window.location.href.
LangHref(path) ==
    IF IsHindi(path) THEN SwitchToEnglish(path) ELSE SwitchToHindi(path)

\* Folder of a path: everything up to its last '/'.
DirOf(path) ==
    LET slashes == {i \in 1..Len(path) : path[i] = "/"}
    IN IF slashes = {} THEN Slash
       ELSE SubSeq(path, 1, CHOOSE k \in slashes : \A j \in slashes : j <= k)

\* Path of the page the browser loads for window.location.href = href, for
\* an href without '//', '.', '?' or '#': absolute as it is, relative in the
\* folder of the current page.
Navigate(base, href) ==
    IF StartsWith(href, Slash) THEN href ELSE DirOf(base) \o href

\* Paths of pages: they begin with '/' and have no empty segment.
Paths ==
    {p \in UNION {[1..n -> PathChars] : n \in 1..MaxPathLen} :
        /\ p[1] = "/"
        /\ \A i \in 1..(Len(p) - 1) : ~(p[i] = "/" /\ p[i + 1] = "/")}

\* if (DOM.langBtn && DOM.langText) { ... textContent = isHindi ? 'EN' : 'HI'
LangTextAtLoad(s, hasBtn, hasText, path) ==
    IF s = "portfolio" /\ hasBtn /\ hasText THEN LangText(IsHindi(path)) ELSE ""

InitLang ==
    /\ langBtn \in BOOLEAN
    /\ langText \in BOOLEAN
    /\ pathname \in Paths
    /\ langTextContent = LangTextAtLoad(script, langBtn, langText, pathname)
    /\ pathTrail = <<>>

\* One representative configuration for the pages on which the language
\* toggle is not exercised: the site's root page with both elements.
InitLangFixed ==
    /\ InitLang
    /\ langBtn /\ langText
    /\ pathname = Slash

(***************************************************************************)
(* handleScroll: header, scroll-down indicator, back-to-top button.        *)
(***************************************************************************)
ScrollThresholdOf(s) == IF s = "health" THEN healthScrollThreshold ELSE scrollThreshold

\* A header that changes at the threshold itself.
HeaderScrolledAtOrAbove(s, y) == y >= ScrollThresholdOf(s)

\* classList.add / remove / toggle(cls, force) on 'scrolled'.
HeaderScrolledAt(s, y) == y > ScrollThresholdOf(s)

HeaderAfter(s, present, prev, y) ==
    IF HeaderGuard(present) THEN HeaderScrolledAt(s, y) ELSE prev

IndicatorOpacityAtOrAbove(y) ==
    IF y >= indicatorHideThreshold THEN "0" ELSE "0.8"

IndicatorOpacityAt(y) == IF y > indicatorHideThreshold THEN "0" ELSE "0.8"

IndicatorAfter(s, present, prev, y) ==
    IF s = "production" /\ IndicatorGuard(present)
    THEN IndicatorOpacityAt(y) ELSE prev

BackToTopAfter(s, present, prev, y) ==
    IF s = "health" /\ BackToTopGuard(present)
    THEN y > backToTopThreshold ELSE prev

\* handleScroll throws if it reaches a statement on an element that is absent.
HandleScrollThrows(s, hasHeader, hasIndicator, hasBackToTop) ==
    \/ Throws(HeaderGuard(hasHeader), hasHeader)
    \/ s = "production" /\ Throws(IndicatorGuard(hasIndicator), hasIndicator)
    \/ s = "health" /\ Throws(BackToTopGuard(hasBackToTop), hasBackToTop)

(***************************************************************************)
(* highlightNav.                                                           *)
(***************************************************************************)
\* window.scrollY >= sectionTop - 150                    (portfolio)
\* window.scrollY >= sectionTop - window.innerHeight / 3 (production)
\* The division is exact in the script; both sides are scaled by 3 here.
Qualifies(s, y, top, vh) ==
    IF s = "portfolio" THEN y >= top - portfolioSpyOffset
    ELSE 3 * y >= 3 * top - vh

\* sections.forEach: the id of every qualifying section overwrites currentId.
RECURSIVE SpyLoop(_, _, _, _, _, _)
SpyLoop(s, secs, y, vh, i, cur) ==
    IF i > Len(secs) THEN cur
    ELSE SpyLoop(s, secs, y, vh, i + 1,
                 IF Qualifies(s, y, secs[i], vh) THEN SecId(i) ELSE cur)

\* A loop that keeps the first qualifying section instead of the last.
RECURSIVE SpyLoopFirst(_, _, _, _, _, _)
SpyLoopFirst(s, secs, y, vh, i, cur) ==
    IF i > Len(secs) THEN cur
    ELSE SpyLoopFirst(s, secs, y, vh, i + 1,
                      IF Qualifies(s, y, secs[i], vh) /\ cur = EmptyStr
                      THEN SecId(i) ELSE cur)

DeriveCurrentIdFirst(s, secs, y, vh) == SpyLoopFirst(s, secs, y, vh, 1, EmptyStr)

DeriveCurrentId(s, secs, y, vh) == SpyLoop(s, secs, y, vh, 1, EmptyStr)

\* String.prototype.startsWith('#')
StartsWithHash(h) == Len(h) >= 1 /\ h[1] = "#"

\* navLinks.forEach of the portfolio script.
PortfolioLinks(links, cur) ==
    [i \in DOMAIN links |-> Includes(Href(i), cur) /\ cur # EmptyStr]

\* if (currentId) navLinks.forEach ... of the production script.
ProductionLinks(links, cur) ==
    IF cur # EmptyStr
    THEN [i \in DOMAIN links |->
            IF StartsWithHash(Href(i)) THEN Href(i) = Hash \o cur ELSE links[i]]
    ELSE links

\* The whole of highlightNav: <<link markers, currentId>> after the call.
HighlightNav(s, w, vh, secs, y, links, cur) ==
    IF s = "health" THEN <<links, cur>>
    ELSE IF w <= breakpoint THEN <<links, cur>>
    ELSE IF s = "production" /\ Len(secs) = 0 THEN <<links, cur>>
    ELSE LET id == DeriveCurrentId(s, secs, y, vh)
         IN  IF s = "portfolio" THEN <<PortfolioLinks(links, id), id>>
             ELSE <<ProductionLinks(links, id), id>>

(***************************************************************************)
(* The state after DOMContentLoaded.                                       *)
(***************************************************************************)
\* Static markup marks no link, or the link to another page, as active.
StaticMarkings ==
    {[i \in 1..NumLinks |-> FALSE],
     [i \in 1..NumLinks |-> i = ExternalLink]}

\* initTheme(); handleScroll();  highlightNav is not called at load.
InitScrollState ==
    /\ scrollY \in ScrollPositions
    /\ scrollPending = FALSE
    /\ headerScrolled = HeaderAfter(script, header, FALSE, scrollY)
    /\ indicatorOpacity = IndicatorAfter(script, scrollIndicator, "", scrollY)
    /\ backToTopVisible = BackToTopAfter(script, backToTopButton, FALSE, scrollY)
    /\ linkActive \in StaticMarkings
    /\ currentId = EmptyStr
    /\ notifies = 0
    /\ evals = 0

InitPage ==
    /\ script \in Scripts
    /\ header \in BOOLEAN
    /\ scrollIndicator \in (IF script = "production" THEN BOOLEAN ELSE {FALSE})
    /\ backToTopButton \in (IF script = "health" THEN BOOLEAN ELSE {FALSE})
    /\ sections \in (IF script = "health" THEN {<<>>} ELSE Layouts)
    /\ innerWidth \in (IF script = "health" THEN {1024} ELSE ViewportWidths)
    /\ innerHeight \in (IF script = "health" THEN {300} ELSE ViewportHeights)

\* One representative page per script with scroll-spy.
InitPageNarrow ==
    /\ script \in SpyScripts
    /\ header = TRUE
    /\ scrollIndicator = (script = "production")
    /\ backToTopButton = FALSE
    /\ sections = [i \in 1..MaxSections |-> 500 * i]
    /\ innerWidth = 1024
    /\ innerHeight = 300

\* DOM.reveals.forEach(el => { el.classList.add('reveal-hidden'); observe(el) })
InitReveal ==
    /\ reveals \in {1..n : n \in 0..NumReveals}
    /\ revealHidden = [e \in reveals |-> TRUE]
    /\ revealVisible = [e \in reveals |-> FALSE]
    /\ observed = [e \in reveals |-> TRUE]
    /\ lastEntry = NoEntry
    /\ lastDuplicate = FALSE

InitNoReveal ==
    /\ reveals = {}
    /\ revealHidden = <<>>
    /\ revealVisible = <<>>
    /\ observed = <<>>
    /\ lastEntry = NoEntry
    /\ lastDuplicate = FALSE

\* let isDown = false; let startX; let scrollLeft; style.cursor = 'grab'
InitDrag ==
    /\ scrollContainer = TRUE
    /\ offsetLeft \in OffsetLefts
    /\ containerScrollLeft \in ContainerOffsets
    /\ cursor = "grab"
    /\ isDown = FALSE
    /\ startX = Undefined
    /\ scrollLeft = Undefined
    /\ lastPointer = "none"
    /\ downX = Undefined
    /\ downOffset = Undefined
    /\ moveX = Undefined
    /\ assigned = Undefined

InitNoDrag ==
    /\ scrollContainer = FALSE
    /\ offsetLeft = 0
    /\ containerScrollLeft = 0
    /\ cursor = ""
    /\ isDown = FALSE
    /\ startX = Undefined
    /\ scrollLeft = Undefined
    /\ lastPointer = "none"
    /\ downX = Undefined
    /\ downOffset = Undefined
    /\ moveX = Undefined
    /\ assigned = Undefined

\* The page markup: the menu is closed.
MenuClosed ==
    /\ menuOpen = FALSE
    /\ overlayActive = FALSE
    /\ bodyLocked = FALSE
    /\ scrollTimers = {}
    /\ wasOpen = FALSE

\* A page with every element of the mobile menu (the health script has
\* neither a close button nor an overlay).
InitMenuComplete ==
    /\ mobileMenu = TRUE
    /\ mobileToggle = TRUE
    /\ mobileClose = (script \in SpyScripts)
    /\ overlay = (script \in SpyScripts)
    /\ ariaExpanded = "false"
    /\ MenuClosed

\* querySelector may find none of the menu's elements.
InitMenu ==
    /\ mobileMenu \in BOOLEAN
    /\ mobileToggle \in BOOLEAN
    /\ mobileClose \in (IF script \in SpyScripts THEN BOOLEAN ELSE {FALSE})
    /\ overlay \in (IF script \in SpyScripts THEN BOOLEAN ELSE {FALSE})
    /\ ariaExpanded \in (IF mobileToggle THEN {"none", "false"} ELSE {"none"})
    /\ MenuClosed

(***************************************************************************)
(* Scroll events.                                                          *)
(***************************************************************************)
\* The platform scrolls the window; a 'scroll' event will follow.
ScrollTo(y) ==
    /\ y # scrollY
    /\ scrollY' = y
    /\ scrollPending' = TRUE
    /\ lastOp' = "scrollTo"
    /\ UNCHANGED <<headerScrolled, indicatorOpacity, backToTopVisible,
                   linkActive, currentId, notifies, evals>>
    /\ UNCHANGED <<pageVars, themeVars, langVars, revealVars, dragVars, menuVars, raised>>

\* handleScroll as a 'scroll' listener.
HandleScrollStep ==
    /\ evals' = evals + 1
    /\ raised' = (raised \/ HandleScrollThrows(script, header, scrollIndicator,
                                               backToTopButton))
    /\ headerScrolled' = HeaderAfter(script, header, headerScrolled, scrollY)
    /\ indicatorOpacity' =
           IndicatorAfter(script, scrollIndicator, indicatorOpacity, scrollY)
    /\ backToTopVisible' =
           BackToTopAfter(script, backToTopButton, backToTopVisible, scrollY)

\* highlightNav without its viewport-width check.
HighlightNavStepAnyWidth ==
    LET r == HighlightNav(script, breakpoint + 1, innerHeight, sections,
                          scrollY, linkActive, currentId)
    IN  /\ linkActive' = r[1]
        /\ currentId' = r[2]

\* highlightNav as a 'scroll' listener.
HighlightNavStep ==
    LET r == HighlightNav(script, innerWidth, innerHeight, sections,
                          scrollY, linkActive, currentId)
    IN  /\ linkActive' = r[1]
        /\ currentId' = r[2]

\* Listeners gated by a once-per-frame flag: only the first event of a
\* display frame is evaluated.
ScrollListenersCoalesced ==
    IF evals = 0
    THEN HandleScrollStep /\ HighlightNavStep
    ELSE UNCHANGED <<evals, raised, headerScrolled, indicatorOpacity,
                     backToTopVisible, linkActive, currentId>>

\* window.addEventListener('scroll', handleScroll) and
\* window.addEventListener('scroll', highlightNav): every dispatched event
\* runs both listeners synchronously, in registration order.
ScrollListeners == HandleScrollStep /\ HighlightNavStep

\* The platform dispatches the 'scroll' event.
ScrollEvent ==
    /\ scrollPending
    /\ notifies < MaxNotifies
    /\ scrollPending' = FALSE
    /\ notifies' = notifies + 1
    /\ ScrollListeners
    /\ lastOp' = "scrollEvent"
    /\ UNCHANGED scrollY
    /\ UNCHANGED <<pageVars, themeVars, langVars, revealVars, dragVars, menuVars>>

\* The display starts a new frame.
FrameTick ==
    /\ notifies > 0
    /\ notifies' = 0
    /\ evals' = 0
    /\ UNCHANGED <<scrollY, scrollPending, headerScrolled, indicatorOpacity,
                   backToTopVisible, linkActive, currentId>>
    /\ UNCHANGED <<pageVars, themeVars, langVars, revealVars, dragVars, menuVars, raised, lastOp>>

NextScroll ==
    \/ \E y \in ScrollPositions : ScrollTo(y)
    \/ ScrollEvent
    \/ FrameTick

InitScroll ==
    /\ InitPage
    /\ InitScrollState
    /\ InitNoReveal
    /\ InitNoDrag
    /\ InitMenuComplete
    /\ InitThemeFixed
    /\ InitLangFixed
    /\ raised = FALSE
    /\ lastOp = "init"

SpecScroll == InitScroll /\ [][NextScroll]_vars

\* The platform dispatches the 'scroll' event of every scroll it performs,
\* and display frames keep coming.
SpecScrollFair == SpecScroll /\ WF_vars(ScrollEvent) /\ WF_vars(FrameTick)

(***************************************************************************)
(* Reveal animations: the IntersectionObserver callback.                   *)
(***************************************************************************)
Entries == [target : reveals, isIntersecting : BOOLEAN]
Batches == UNION {[1..n -> Entries] : n \in 1..MaxBatch}

\* A callback that mirrors isIntersecting instead of revealing once.
RevealEntryMirror(st, entry) ==
    LET t == entry.target
    IN  [st EXCEPT !.visible[t] = entry.isIntersecting,
                   !.hidden[t] = ~entry.isIntersecting]

\* A callback that reveals and keeps observing.
RevealEntryKeepObserving(st, entry) ==
    LET t == entry.target
    IN  IF entry.isIntersecting
        THEN [st EXCEPT !.visible[t] = TRUE, !.hidden[t] = FALSE]
        ELSE st

\* A callback that stops observing every element at the first reveal.
RevealEntryDisconnect(st, entry) ==
    LET t == entry.target
    IN  IF entry.isIntersecting
        THEN [st EXCEPT !.visible[t] = TRUE,
                        !.hidden[t] = FALSE,
                        !.observed = [e \in DOMAIN st.observed |-> FALSE]]
        ELSE st

\* A callback that flips the markings on every intersecting entry.
RevealEntryToggle(st, entry) ==
    LET t == entry.target
    IN  IF entry.isIntersecting
        THEN [st EXCEPT !.visible[t] = ~st.visible[t],
                        !.hidden[t] = ~st.hidden[t],
                        !.observed[t] = FALSE]
        ELSE st

\* The body of entries.forEach: classList.add('reveal-visible'),
\* classList.remove('reveal-hidden'), observer.unobserve(entry.target).
RevealEntry(st, entry) ==
    LET t == entry.target
    IN  IF entry.isIntersecting
        THEN [st EXCEPT !.visible[t] = TRUE,
                        !.hidden[t] = FALSE,
                        !.observed[t] = FALSE]
        ELSE st

RECURSIVE RevealLoop(_, _, _)
RevealLoop(st, entries, i) ==
    IF i > Len(entries) THEN st
    ELSE RevealLoop(RevealEntry(st, entries[i]), entries, i + 1)

\* The platform delivers a batch of entries to the observer callback.  A
\* batch may hold several records of one target, and records queued for a
\* target before it was unobserved.
Intersection(entries) ==
    /\ script \in SpyScripts
    /\ LET st == RevealLoop([hidden |-> revealHidden,
                             visible |-> revealVisible,
                             observed |-> observed], entries, 1)
       IN  /\ revealHidden' = st.hidden
           /\ revealVisible' = st.visible
           /\ observed' = st.observed
    /\ lastEntry' = entries[Len(entries)]
    /\ lastDuplicate' =
          LET n == Len(entries)
          IN  /\ entries[n].isIntersecting
              /\ \/ revealVisible[entries[n].target]
                 \/ \E i \in 1..(n - 1) : entries[i] = entries[n]
    /\ lastOp' = "intersection"
    /\ UNCHANGED reveals
    /\ UNCHANGED <<pageVars, themeVars, langVars, scrollVars, dragVars, menuVars, raised>>

\* Intersection notifications interleaved with scroll events.
NextReveal ==
    \/ \E entries \in Batches : Intersection(entries)
    \/ \E y \in RevealScrollPositions : ScrollTo(y)
    \/ ScrollEvent
    \/ FrameTick

InitRevealPage ==
    /\ InitPageNarrow
    /\ InitScrollState
    /\ scrollY = 0
    /\ linkActive = [i \in 1..NumLinks |-> FALSE]
    /\ InitReveal
    /\ InitNoDrag
    /\ InitMenuComplete
    /\ InitThemeFixed
    /\ InitLangFixed
    /\ raised = FALSE
    /\ lastOp = "init"

SpecReveal == InitRevealPage /\ [][NextReveal]_vars

(***************************************************************************)
(* Drag-to-scroll of the doctor cards.                                     *)
(***************************************************************************)
\* Assigning to Element.scrollLeft scrolls the region to the value, which
\* the platform keeps within the scrollable range.
Clamp(v) == IF v < 0 THEN 0 ELSE IF v > MaxScrollLeft THEN MaxScrollLeft ELSE v

\* A drag that moves the content away from the pointer.
DragTargetSameSign(sl, sx, x) == sl + (x - sx) * dragSpeed

\* const walk = (x - startX) * CONFIG.dragSpeed; scrollLeft - walk
DragTarget(sl, sx, x) == sl - (x - sx) * dragSpeed

\* mousedown listener.
MouseDown(pageX) ==
    /\ scrollContainer
    /\ isDown' = TRUE
    /\ cursor' = "grabbing"
    /\ startX' = pageX - offsetLeft
    /\ scrollLeft' = containerScrollLeft
    /\ lastPointer' = "down"
    /\ downX' = pageX - offsetLeft
    /\ downOffset' = containerScrollLeft
    /\ lastOp' = "mousedown"
    /\ UNCHANGED <<scrollContainer, offsetLeft, containerScrollLeft, moveX, assigned>>
    /\ UNCHANGED <<pageVars, themeVars, langVars, scrollVars, revealVars, menuVars, raised>>

\* A stopDrag that leaves the session open.
StopDragKeepsDown ==
    /\ cursor' = "grab"
    /\ UNCHANGED isDown

\* const stopDrag
StopDrag ==
    /\ isDown' = FALSE
    /\ cursor' = "grab"

\* mouseup listener.
MouseUp ==
    /\ scrollContainer
    /\ StopDrag
    /\ lastPointer' = "up"
    /\ lastOp' = "mouseup"
    /\ UNCHANGED <<scrollContainer, offsetLeft, containerScrollLeft, startX,
                   scrollLeft, downX, downOffset, moveX, assigned>>
    /\ UNCHANGED <<pageVars, themeVars, langVars, scrollVars, revealVars, menuVars, raised>>

\* mouseleave listener.
MouseLeave ==
    /\ scrollContainer
    /\ StopDrag
    /\ lastPointer' = "leave"
    /\ lastOp' = "mouseleave"
    /\ UNCHANGED <<scrollContainer, offsetLeft, containerScrollLeft, startX,
                   scrollLeft, downX, downOffset, moveX, assigned>>
    /\ UNCHANGED <<pageVars, themeVars, langVars, scrollVars, revealVars, menuVars, raised>>

\* A mousemove listener without the isDown guard.
MouseMoveHandlerUnguarded(pageX) ==
    LET x == pageX - offsetLeft
    IN  /\ assigned' = DragTarget(scrollLeft, startX, x)
        /\ containerScrollLeft' = Clamp(DragTarget(scrollLeft, startX, x))

\* A mousemove listener that leaves the write to the next frame while a
\* scroll is waiting for its event.
MouseMoveHandlerDeferred(pageX) ==
    LET x == pageX - offsetLeft
    IN  IF ~isDown \/ scrollPending
        THEN UNCHANGED <<assigned, containerScrollLeft>>
        ELSE /\ assigned' = DragTarget(scrollLeft, startX, x)
             /\ containerScrollLeft' = Clamp(DragTarget(scrollLeft, startX, x))

\* mousemove listener: if (!isDown) return; ... scrollLeft = scrollLeft - walk
MouseMoveHandler(pageX) ==
    LET x == pageX - offsetLeft
    IN  IF ~isDown
        THEN UNCHANGED <<assigned, containerScrollLeft>>
        ELSE /\ assigned' = DragTarget(scrollLeft, startX, x)
             /\ containerScrollLeft' = Clamp(DragTarget(scrollLeft, startX, x))

MouseMove(pageX) ==
    /\ scrollContainer
    /\ MouseMoveHandler(pageX)
    /\ moveX' = pageX - offsetLeft
    /\ lastOp' = "mousemove"
    /\ UNCHANGED <<scrollContainer, offsetLeft, cursor, isDown, startX,
                   scrollLeft, lastPointer, downX, downOffset>>
    /\ UNCHANGED <<pageVars, themeVars, langVars, scrollVars, revealVars, menuVars, raised>>

\* The user scrolls the region itself (wheel, touch, keyboard).
NativeScroll(v) ==
    /\ scrollContainer
    /\ v # containerScrollLeft
    /\ containerScrollLeft' = v
    /\ lastOp' = "nativeScroll"
    /\ UNCHANGED <<scrollContainer, offsetLeft, cursor, isDown, startX,
                   scrollLeft, lastPointer, downX, downOffset, moveX, assigned>>
    /\ UNCHANGED <<pageVars, themeVars, langVars, scrollVars, revealVars, menuVars, raised>>

NextDrag ==
    \/ \E pageX \in PageXs : MouseDown(pageX)
    \/ MouseUp
    \/ MouseLeave
    \/ \E pageX \in PageXs : MouseMove(pageX)
    \/ \E v \in ContainerOffsets : NativeScroll(v)

InitDragPage ==
    /\ InitPageNarrow
    /\ InitScrollState
    /\ scrollY = 0
    /\ linkActive = [i \in 1..NumLinks |-> FALSE]
    /\ InitNoReveal
    /\ InitDrag
    /\ InitMenuComplete
    /\ InitThemeFixed
    /\ InitLangFixed
    /\ raised = FALSE
    /\ lastOp = "init"

SpecDrag == InitDragPage /\ [][NextDrag]_vars

(***************************************************************************)
(* Mobile menu.                                                            *)
(***************************************************************************)
AnchorTops == Tops

MenuState ==
    [open |-> menuOpen, overlay |-> overlayActive, locked |-> bodyLocked,
     aria |-> ariaExpanded, raised |-> raised]

AriaOf(b) == IF b THEN "true" ELSE "false"

\* A toggleMenu that ignores its forceClose argument.
ToggleMenuIgnoresForce(st, hasMenu, hasOverlay, hasToggle, forceClose) ==
    IF ~hasMenu THEN st
    ELSE LET shouldOpen == ~st.open
             s1 == [st EXCEPT !.open = shouldOpen]
             s3 == [s1 EXCEPT !.overlay = shouldOpen, !.locked = shouldOpen]
         IN  IF ~hasOverlay THEN [s1 EXCEPT !.raised = TRUE]
             ELSE IF ~hasToggle THEN [s3 EXCEPT !.raised = TRUE]
             ELSE [s3 EXCEPT !.aria = AriaOf(shouldOpen)]

\* toggleMenu(forceClose).  The statements run in order; the first one on
\* an element that is absent throws and ends the call.
ToggleMenu(st, hasMenu, hasOverlay, hasToggle, forceClose) ==
    IF ~hasMenu THEN st
    ELSE LET shouldOpen == IF forceClose THEN FALSE ELSE ~st.open
             s1 == [st EXCEPT !.open = shouldOpen]
             s3 == [s1 EXCEPT !.overlay = shouldOpen, !.locked = shouldOpen]
         IN  IF ~hasOverlay THEN [s1 EXCEPT !.raised = TRUE]
             ELSE IF ~hasToggle THEN [s3 EXCEPT !.raised = TRUE]
             ELSE [s3 EXCEPT !.aria = AriaOf(shouldOpen)]

\* toggleMobileNav (health); registered only if navToggle is present.
ToggleMobileNav(st, hasNav) ==
    LET newState == ~(st.aria = "true")
    IN  [st EXCEPT !.aria = AriaOf(newState),
                   !.locked = newState,
                   !.open = IF hasNav THEN newState ELSE st.open]

\* closeMobileNav (health).
CloseMobileNav(st, hasToggle, hasNav) ==
    IF ~hasToggle THEN [st EXCEPT !.raised = TRUE]
    ELSE IF st.aria = "true"
    THEN [st EXCEPT !.aria = "false",
                    !.locked = FALSE,
                    !.open = IF hasNav THEN FALSE ELSE st.open]
    ELSE st

ApplyMenu(st) ==
    /\ menuOpen' = st.open
    /\ overlayActive' = st.overlay
    /\ bodyLocked' = st.locked
    /\ ariaExpanded' = st.aria
    /\ raised' = st.raised
    /\ wasOpen' = (menuOpen \/ ariaExpanded = "true")
    /\ UNCHANGED <<mobileMenu, mobileToggle, mobileClose, overlay>>

\* click on the toggle button.
ToggleClick ==
    /\ mobileToggle
    /\ ApplyMenu(IF script = "health"
                 THEN ToggleMobileNav(MenuState, mobileMenu)
                 ELSE ToggleMenu(MenuState, mobileMenu, overlay, mobileToggle, FALSE))
    /\ lastOp' = "toggleClick"
    /\ UNCHANGED <<pageVars, themeVars, langVars, scrollVars, revealVars, dragVars, scrollTimers>>

\* click on the close button.
CloseClick ==
    /\ script \in SpyScripts
    /\ mobileClose
    /\ ApplyMenu(ToggleMenu(MenuState, mobileMenu, overlay, mobileToggle, TRUE))
    /\ lastOp' = "closeClick"
    /\ UNCHANGED <<pageVars, themeVars, langVars, scrollVars, revealVars, dragVars, scrollTimers>>

\* click on the overlay.
OverlayClick ==
    /\ script \in SpyScripts
    /\ overlay
    /\ ApplyMenu(ToggleMenu(MenuState, mobileMenu, overlay, mobileToggle, TRUE))
    /\ lastOp' = "overlayClick"
    /\ UNCHANGED <<pageVars, themeVars, langVars, scrollVars, revealVars, dragVars, scrollTimers>>

\* click on a link inside the menu ('.mobile-links a', portfolio).
MenuLinkClick ==
    /\ script = "portfolio"
    /\ ApplyMenu(ToggleMenu(MenuState, mobileMenu, overlay, mobileToggle, TRUE))
    /\ lastOp' = "menuLinkClick"
    /\ UNCHANGED <<pageVars, themeVars, langVars, scrollVars, revealVars, dragVars, scrollTimers>>

\* keydown with e.key === 'Escape'.
KeyEscape ==
    /\ ApplyMenu(IF script = "health"
                 THEN CloseMobileNav(MenuState, mobileToggle, mobileMenu)
                 ELSE IF mobileMenu /\ menuOpen
                 THEN ToggleMenu(MenuState, mobileMenu, overlay, mobileToggle, TRUE)
                 ELSE MenuState)
    /\ lastOp' = "escape"
    /\ UNCHANGED <<pageVars, themeVars, langVars, scrollVars, revealVars, dragVars, scrollTimers>>

\* window.scrollTo({ top: offsetPosition }) where offsetPosition is the
\* target's document offset less CONFIG.headerOffset; the platform keeps
\* the offset at or above 0.
SmoothScrollTarget(top) ==
    IF top - headerOffset < 0 THEN 0 ELSE top - headerOffset

\* The platform scrolls the window to y at a script's request.
ScriptScroll(y) ==
    /\ scrollY' = y
    /\ scrollPending' = (scrollPending \/ y # scrollY)
    /\ UNCHANGED <<headerScrolled, indicatorOpacity, backToTopVisible,
                   linkActive, currentId, notifies, evals>>

\* click on an a[href^="#"] whose target element exists at offset top
\* (production, health).
AnchorClick(top) ==
    /\ script \in {"production", "health"}
    /\ IF script = "production"
       THEN /\ ScriptScroll(SmoothScrollTarget(top))
            /\ ApplyMenu(IF mobileMenu /\ menuOpen
                         THEN ToggleMenu(MenuState, mobileMenu, overlay,
                                         mobileToggle, TRUE)
                         ELSE MenuState)
            /\ UNCHANGED scrollTimers
       ELSE /\ ApplyMenu(CloseMobileNav(MenuState, mobileToggle, mobileMenu))
            /\ scrollTimers' =
                  IF mobileToggle THEN scrollTimers \cup {top} ELSE scrollTimers
            /\ UNCHANGED scrollVars
    /\ lastOp' = "anchorClick"
    /\ UNCHANGED <<pageVars, themeVars, langVars, revealVars, dragVars>>

\* click on an a[href^="#"] whose href is '#' or names no element: the
\* handler returns without touching the page.
AnchorClickInert ==
    /\ script \in {"production", "health"}
    /\ lastOp' = "anchorClickInert"
    /\ UNCHANGED <<pageVars, themeVars, langVars, scrollVars, revealVars, dragVars, menuVars, raised>>

\* setTimeout(() => targetElement.scrollIntoView({ block: 'start' }), 100)
TimerFire(top) ==
    /\ top \in scrollTimers
    /\ scrollTimers' = scrollTimers \ {top}
    /\ ScriptScroll(top)
    /\ lastOp' = "timer"
    /\ UNCHANGED <<mobileMenu, mobileToggle, mobileClose, overlay, menuOpen,
                   overlayActive, bodyLocked, ariaExpanded, wasOpen, raised>>
    /\ UNCHANGED <<pageVars, themeVars, langVars, revealVars, dragVars>>

NextMenu ==
    \/ ToggleClick
    \/ CloseClick
    \/ OverlayClick
    \/ MenuLinkClick
    \/ KeyEscape
    \/ \E top \in AnchorTops : AnchorClick(top)
    \/ AnchorClickInert
    \/ \E top \in AnchorTops : TimerFire(top)
    \/ ScrollEvent
    \/ FrameTick

\* One page per script, at a mobile viewport width, loaded at the top.
InitMenuPage ==
    /\ script \in Scripts
    /\ header = TRUE
    /\ scrollIndicator = (script = "production")
    /\ backToTopButton = FALSE
    /\ sections = (IF script = "health" THEN <<>>
                   ELSE [i \in 1..MaxSections |-> 500 * i])
    /\ innerWidth = 768
    /\ innerHeight = 300
    /\ InitScrollState
    /\ scrollY = 0
    /\ linkActive = [i \in 1..NumLinks |-> FALSE]
    /\ InitNoReveal
    /\ InitNoDrag
    /\ InitMenu
    /\ InitThemeFixed
    /\ InitLangFixed
    /\ raised = FALSE
    /\ lastOp = "init"

SpecMenu == InitMenuPage /\ [][NextMenu]_vars

(***************************************************************************)
(* A page with every kind of handler at work.                              *)
(***************************************************************************)
PointerDownXs == {50}
PointerMoveXs == {30}
DragMoveXs == {30, 70}

\* One page per script on which the header, the scroll indicator and the
\* drag container may each be missing.
InitPageOptional ==
    /\ script \in Scripts
    /\ header \in BOOLEAN
    /\ scrollIndicator \in (IF script = "production" THEN BOOLEAN ELSE {FALSE})
    /\ backToTopButton = FALSE
    /\ sections = (IF script = "health" THEN <<>>
                   ELSE [i \in 1..MaxSections |-> 500 * i])
    /\ innerWidth = 1024
    /\ innerHeight = 300
    /\ InitScrollState
    /\ scrollY = 0
    /\ linkActive = [i \in 1..NumLinks |-> FALSE]
    /\ \/ script \in SpyScripts /\ InitReveal /\ reveals = {1}
       \/ script = "health" /\ InitNoReveal
    /\ \/ script \in SpyScripts /\ InitDrag /\ offsetLeft = 0
                                 /\ containerScrollLeft = 100
       \/ InitNoDrag
    /\ InitMenuComplete
    /\ InitThemeFixed
    /\ InitLangFixed
    /\ raised =
          (\/ HandleScrollThrows(script, header, scrollIndicator, backToTopButton)
           \/ script \in SpyScripts
                 /\ Throws(ContainerGuard(scrollContainer), scrollContainer))
    /\ lastOp = "init"

NextPage ==
    \/ \E y \in RevealScrollPositions : ScrollTo(y)
    \/ ScrollEvent
    \/ FrameTick
    \/ \E pageX \in PointerDownXs : MouseDown(pageX)
    \/ MouseUp
    \/ MouseLeave
    \/ \E pageX \in PointerMoveXs : MouseMove(pageX)
    \/ \E entry \in Entries : Intersection(<<entry>>)
    \/ ToggleClick
    \/ KeyEscape

SpecPage == InitPageOptional /\ [][NextPage]_vars

\* Drag-to-scroll while the window scrolls.
InitDragScrollPage ==
    /\ InitDragPage
    /\ offsetLeft = 0
    /\ containerScrollLeft = 100

NextDragScroll ==
    \/ \E y \in RevealScrollPositions : ScrollTo(y)
    \/ ScrollEvent
    \/ FrameTick
    \/ \E pageX \in PointerDownXs : MouseDown(pageX)
    \/ MouseUp
    \/ MouseLeave
    \/ \E pageX \in DragMoveXs : MouseMove(pageX)

SpecDragScroll == InitDragScrollPage /\ [][NextDragScroll]_vars

(***************************************************************************)
(* Theme button.                                                           *)
(***************************************************************************)
ThemeState ==
    [attr |-> dataTheme, stored |-> storedTheme,
     light |-> iconLightDisplay, dark |-> iconDarkDisplay]

StoreTheme(st) ==
    /\ dataTheme' = st.attr
    /\ storedTheme' = st.stored
    /\ iconLightDisplay' = st.light
    /\ iconDarkDisplay' = st.dark

\* click on the theme button.
ThemeClick ==
    /\ script \in SpyScripts
    /\ themeBtn
    /\ rotateTimers < MaxRotateTimers
    /\ btnTransform' = "rotate(180deg)"
    /\ rotateTimers' = rotateTimers + 1
    /\ StoreTheme(ApplyTheme(ThemeState, NextTheme(dataTheme),
                             themeIconLight, themeIconDark))
    /\ themeTrail' = IF Len(themeTrail) = 2
                     THEN <<themeTrail[2], dataTheme>>
                     ELSE Append(themeTrail, dataTheme)
    /\ lastOp' = "themeClick"
    /\ UNCHANGED <<themeBtn, themeIconLight, themeIconDark, prefersDark,
                   storedAtLoad>>
    /\ UNCHANGED <<pageVars, scrollVars, revealVars, dragVars, menuVars, langVars,
                   raised>>

\* setTimeout(() => DOM.themeBtn.style.transform = 'rotate(0deg)', 300)
RotateTimerFire ==
    /\ rotateTimers > 0
    /\ rotateTimers' = rotateTimers - 1
    /\ btnTransform' = "rotate(0deg)"
    /\ lastOp' = "rotateTimer"
    /\ UNCHANGED <<themeBtn, themeIconLight, themeIconDark, prefersDark,
                   storedTheme, dataTheme, iconLightDisplay, iconDarkDisplay,
                   storedAtLoad, themeTrail>>
    /\ UNCHANGED <<pageVars, scrollVars, revealVars, dragVars, menuVars, langVars,
                   raised>>

\* Another page of the site, open in another tab, stores its theme.
OtherTabStores(theme) ==
    /\ theme # storedTheme
    /\ storedTheme' = theme
    /\ lastOp' = "otherTab"
    /\ UNCHANGED <<themeBtn, themeIconLight, themeIconDark, prefersDark,
                   dataTheme, iconLightDisplay, iconDarkDisplay, btnTransform,
                   rotateTimers, storedAtLoad, themeTrail>>
    /\ UNCHANGED <<pageVars, scrollVars, revealVars, dragVars, menuVars, langVars,
                   raised>>

\* The page is loaded again: initTheme runs on the stored theme.
Reload ==
    /\ storedAtLoad' = storedTheme
    /\ StoreTheme(InitThemeState(storedTheme, prefersDark,
                                 themeIconLight, themeIconDark))
    /\ btnTransform' = ""
    /\ rotateTimers' = 0
    /\ themeTrail' = <<>>
    /\ lastOp' = "reload"
    /\ UNCHANGED <<themeBtn, themeIconLight, themeIconDark, prefersDark>>
    /\ UNCHANGED <<pageVars, scrollVars, revealVars, dragVars, menuVars, langVars,
                   raised>>

NextTheme2 ==
    \/ ThemeClick
    \/ RotateTimerFire
    \/ \E theme \in Themes : OtherTabStores(theme)
    \/ Reload

InitThemePage ==
    /\ InitPageNarrow
    /\ InitScrollState
    /\ scrollY = 0
    /\ linkActive = [i \in 1..NumLinks |-> FALSE]
    /\ InitNoReveal
    /\ InitNoDrag
    /\ InitMenuComplete
    /\ InitTheme
    /\ InitLangFixed
    /\ raised = FALSE
    /\ lastOp = "init"

SpecTheme == InitThemePage /\ [][NextTheme2]_vars

(***************************************************************************)
(* Language button.                                                        *)
(***************************************************************************)
\* click on the language button: the browser leaves for the other folder and
\* the script runs again on the page it loads.
LangClick ==
    /\ script = "portfolio"
    /\ langBtn
    /\ langText
    /\ pathname' = Navigate(pathname, LangHref(pathname))
    /\ langTextContent' = LangTextAtLoad(script, langBtn, langText, pathname')
    /\ pathTrail' = IF Len(pathTrail) = 2
                    THEN <<pathTrail[2], pathname>>
                    ELSE Append(pathTrail, pathname)
    /\ storedAtLoad' = storedTheme
    /\ lastOp' = "langClick"
    /\ UNCHANGED <<langBtn, langText>>
    /\ UNCHANGED <<themeBtn, themeIconLight, themeIconDark, prefersDark,
                   storedTheme, dataTheme, iconLightDisplay, iconDarkDisplay,
                   btnTransform, rotateTimers, themeTrail>>
    /\ UNCHANGED <<pageVars, scrollVars, revealVars, dragVars, menuVars, raised>>

NextLang == LangClick

InitLangPage ==
    /\ InitPageNarrow
    /\ InitScrollState
    /\ scrollY = 0
    /\ linkActive = [i \in 1..NumLinks |-> FALSE]
    /\ InitNoReveal
    /\ InitNoDrag
    /\ InitMenuComplete
    /\ InitThemeFixed
    /\ InitLang
    /\ raised = FALSE
    /\ lastOp = "init"

SpecLang == InitLangPage /\ [][NextLang]_vars

(***************************************************************************)
(* Claims about the scroll listeners.                                      *)
(***************************************************************************)
SpyRan ==
    /\ lastOp = "scrollEvent"
    /\ script \in SpyScripts
    /\ innerWidth > breakpoint

\* C1 as stated: whatever the number N >= 1 of scroll notifications in one
\* display frame, the scroll evaluation runs exactly once in that frame.
C1_OneEvaluationPerFrame == notifies >= 1 => evals = 1

\* C1 amended: every scroll notification runs the evaluation synchronously,
\* so N notifications in one display frame run N evaluations, and once the
\* event is handled nothing is left pending: the header already shows the
\* state of the current offset.
C1_OneEvaluationPerNotification ==
    /\ evals = notifies
    /\ (lastOp = "scrollEvent" /\ header) =>
           (headerScrolled <=> scrollY > ScrollThresholdOf(script))

C1_Witness == notifies = 2 /\ evals = 2 /\ lastOp = "scrollEvent"

\* Last section of secs, in ascending topOffset order, that qualifies under
\* a threshold of one third of the viewport height; EmptyStr when none does.
IsLastByTop(secs, y, vh, id) ==
    LET Q == {i \in 1..Len(secs) : 3 * secs[i] - vh <= 3 * y}
    IN  IF Q = {} THEN id = EmptyStr
        ELSE \E i \in Q : /\ \A j \in Q : secs[j] <= secs[i]
                          /\ id = SecId(i)

\* C4 as stated: after a scroll evaluation on a page with sections the
\* active section id is the id of the last section, in ascending topOffset
\* order, whose topOffset - thresholdFraction * viewportHeight is <= the
\* scroll offset, and null when none qualifies.
C4_LastByTopOffset ==
    (SpyRan /\ Len(sections) > 0) =>
        IsLastByTop(sections, scrollY, innerHeight, currentId)

SetMax(S) == CHOOSE m \in S : \A x \in S : x <= m

\* C4 amended: after a scroll evaluation (above the width breakpoint) on a
\* page with sections the active section id is the id of the last section,
\* in document order, whose topOffset minus the script's threshold (one
\* third of the viewport height in the production script, 150 px in the
\* portfolio script) is <= the scroll offset, and empty when none qualifies.
C4_LastInDocumentOrder ==
    (SpyRan /\ Len(sections) > 0) =>
        LET Q == {i \in 1..Len(sections) :
                    IF script = "portfolio"
                    THEN sections[i] - 150 <= scrollY
                    ELSE 3 * sections[i] - innerHeight <= 3 * scrollY}
        IN  IF Q = {} THEN currentId = EmptyStr
            ELSE currentId = SecId(SetMax(Q))

C4_Witness ==
    /\ SpyRan
    /\ script = "production"
    /\ innerHeight = 0
    /\ Len(sections) = 2
    /\ sections[1] = 500
    /\ sections[2] = 1000
    /\ scrollY = 1000
    /\ currentId = SecId(2)

HashLinks == {i \in 1..NumLinks : StartsWithHash(Href(i))}

\* C5: after an invocation of the highlighter above the width breakpoint on
\* a page with sections, exactly the same-page link that targets the active
\* section carries the active marker, and no same-page link carries it when
\* the active section id is empty.
C5_ExactlyOneActiveLink ==
    (SpyRan /\ Len(sections) > 0) =>
        {i \in HashLinks : linkActive[i]} =
            (IF currentId = EmptyStr THEN {}
             ELSE {i \in HashLinks : Href(i) = Hash \o currentId})

\* C8: after initialisation and after every scroll evaluation the header is
\* 'scrolled' if and only if the scroll offset is strictly greater than the
\* script's scroll threshold.
C8_HeaderThreshold ==
    (header /\ ~scrollPending) =>
        (headerScrolled <=>
            scrollY > (IF script = "health" THEN 100 ELSE 20))

C8_Witness ==
    /\ header
    /\ lastOp = "scrollEvent"
    /\ script = "production"
    /\ scrollY = 20
    /\ ~headerScrolled
    /\ notifies = 2

\* C10: on a page without scroll-spy sections a scroll evaluation leaves
\* every link's active marker and the active section id as they were.
C10_NoSectionPreservation ==
    [][(lastOp' = "scrollEvent" /\ script \in SpyScripts /\ Len(sections) = 0)
          => (linkActive' = linkActive /\ currentId' = currentId)]_vars

\* C14: a scroll evaluation leaves the active marker of the link to another
\* page exactly as it was; only links whose href names a same-page section
\* gain or lose the marker.
C14_InertLinks ==
    [][lastOp' = "scrollEvent" =>
          linkActive'[ExternalLink] = linkActive[ExternalLink]]_vars

\* C17: on a page with the scroll-down indicator, after initialisation and
\* after every scroll evaluation the indicator is visible (opacity 0.8) if
\* and only if the scroll offset is at most 100, and hidden (opacity 0)
\* otherwise.
C17_IndicatorVisibility ==
    (script = "production" /\ scrollIndicator /\ ~scrollPending) =>
        /\ indicatorOpacity \in {"0", "0.8"}
        /\ indicatorOpacity = "0.8" <=> scrollY <= 100

C17_Witness ==
    /\ script = "production"
    /\ scrollIndicator
    /\ lastOp = "scrollEvent"
    /\ scrollY = 100
    /\ indicatorOpacity = "0.8"
    /\ notifies = 2

\* C18: at a viewport width of at most 768 a scroll evaluation leaves every
\* link's active marker as it was, whatever the offset and the sections.
C18_BreakpointSuppression ==
    [][(lastOp' = "scrollEvent" /\ innerWidth <= 768) =>
          linkActive' = linkActive]_vars

C18_Witness ==
    /\ lastOp = "scrollEvent"
    /\ script \in SpyScripts
    /\ innerWidth = 768
    /\ Len(sections) = 2
    /\ sections[1] = 0
    /\ scrollY = 600
    /\ notifies = 2
    /\ \A i \in 1..NumLinks : ~linkActive[i]

\* C12: every scroll the platform performs is eventually followed by a
\* scroll evaluation, and the evaluation reads the offset of the moment it
\* runs: whenever no scroll is waiting for its event, the header, the
\* indicator and the back-to-top button show the state of the current
\* offset, and after an evaluation the active section id is the one derived
\* from the current offset; this stays so until the window scrolls again.
C12_AppliedToOffset ==
    /\ header =>
          (headerScrolled <=> scrollY > (IF script = "health" THEN 100 ELSE 20))
    /\ (script = "production" /\ scrollIndicator) =>
          indicatorOpacity = (IF scrollY > 100 THEN "0" ELSE "0.8")
    /\ (script = "health" /\ backToTopButton) =>
          (backToTopVisible <=> scrollY > 300)
    /\ SpyRan =>
          currentId = DeriveCurrentId(script, sections, scrollY, innerHeight)

C2_RevealMonotonic ==
    [][\A e \in reveals :
          \/ /\ revealHidden'[e] = revealHidden[e]
             /\ revealVisible'[e] = revealVisible[e]
          \/ /\ revealHidden[e] /\ ~revealVisible[e]
             /\ revealVisible'[e] /\ ~revealHidden'[e]]_vars

C2_Witness ==
    /\ lastOp = "intersection"
    /\ evals > 0
    /\ \E e \in reveals :
          /\ lastEntry = [target |-> e, isIntersecting |-> FALSE]
          /\ revealVisible[e]
          /\ ~revealHidden[e]

\* C3: every target element carries exactly one of the hidden and visible
\* markings and is registered with the observer if and only if it is still
\* hidden; the element whose intersecting entry the callback handled last
\* is visible, not hidden and unregistered.
C3_RevealOneShot ==
    /\ \A e \in reveals :
          /\ revealHidden[e] # revealVisible[e]
          /\ observed[e] <=> revealHidden[e]
    /\ (lastOp = "intersection" /\ lastEntry.isIntersecting) =>
          /\ revealVisible[lastEntry.target]
          /\ ~revealHidden[lastEntry.target]
          /\ ~observed[lastEntry.target]

C3_Witness ==
    /\ lastOp = "intersection"
    /\ reveals = {1, 2}
    /\ lastEntry = [target |-> 2, isIntersecting |-> FALSE]
    /\ revealVisible[1] /\ ~revealHidden[1] /\ ~observed[1]
    /\ revealHidden[2] /\ ~revealVisible[2] /\ observed[2]

\* C11: an intersecting entry for an element that is already revealed is
\* ignored: the callback leaves every marking and every registration as it
\* was, and a step that handles such an entry last leaves its target as it
\* was; handling the same intersecting entry twice gives the state that
\* handling it once gives.
RevealState ==
    [hidden |-> revealHidden, visible |-> revealVisible, observed |-> observed]

C11_DuplicateRevealIgnored ==
    /\ [](\A entry \in Entries :
            entry.isIntersecting =>
                /\ revealVisible[entry.target] =>
                      RevealEntry(RevealState, entry) = RevealState
                /\ RevealEntry(RevealEntry(RevealState, entry), entry)
                      = RevealEntry(RevealState, entry)
                /\ RevealLoop(RevealState, <<entry, entry>>, 1)
                      = RevealLoop(RevealState, <<entry>>, 1))
    /\ [][(/\ lastOp' = "intersection"
           /\ lastEntry'.isIntersecting
           /\ revealVisible[lastEntry'.target]) =>
              /\ revealVisible'[lastEntry'.target]
              /\ revealHidden'[lastEntry'.target] = revealHidden[lastEntry'.target]
              /\ observed'[lastEntry'.target] = observed[lastEntry'.target]]_vars

C11_Witness ==
    /\ lastOp = "intersection"
    /\ reveals = {1, 2}
    /\ lastEntry = [target |-> 1, isIntersecting |-> TRUE]
    /\ lastDuplicate
    /\ revealVisible[1] /\ ~revealHidden[1] /\ ~observed[1]
    /\ revealHidden[2] /\ ~revealVisible[2] /\ observed[2]

\* C13: the callback's handling of an entry leaves the markings and the
\* registration of every element other than the entry's target as they
\* were, and entries may be handled in either order; a scroll or scroll
\* evaluation changes no element's markings or registration; an intersection
\* callback changes neither the header, the indicator, the link markers nor
\* the derived section id.
C13_Independence ==
    /\ [](\A e1 \in Entries :
            /\ \A e \in reveals \ {e1.target} :
                  LET st == RevealEntry(RevealState, e1)
                  IN  /\ st.hidden[e] = revealHidden[e]
                      /\ st.visible[e] = revealVisible[e]
                      /\ st.observed[e] = observed[e]
            /\ \A e2 \in Entries :
                  RevealLoop(RevealState, <<e1, e2>>, 1)
                      = RevealLoop(RevealState, <<e2, e1>>, 1))
    /\ [][lastOp' \in {"scrollTo", "scrollEvent"} =>
              /\ revealHidden' = revealHidden
              /\ revealVisible' = revealVisible
              /\ observed' = observed]_vars
    /\ [][lastOp' = "intersection" =>
              /\ headerScrolled' = headerScrolled
              /\ indicatorOpacity' = indicatorOpacity
              /\ linkActive' = linkActive
              /\ currentId' = currentId
              /\ scrollY' = scrollY]_vars

C13_Witness ==
    /\ lastOp = "intersection"
    /\ reveals = {1, 2}
    /\ lastEntry = [target |-> 1, isIntersecting |-> TRUE]
    /\ ~lastDuplicate
    /\ revealVisible[1] /\ ~observed[1]
    /\ revealHidden[2] /\ observed[2]
    /\ scrollY = 600
    /\ ~scrollPending
    /\ headerScrolled
    /\ currentId = SecId(1)
    /\ linkActive[1]

(***************************************************************************)
(* Claims about the mobile menu.                                           *)
(***************************************************************************)
\* C20: after any sequence of toggle, close, overlay, menu-link and anchor
\* clicks and Escape presses the indicators of menu openness that the page
\* has agree: the menu is marked open if and only if the overlay is active,
\* the body scroll is locked and the toggle's aria-expanded is 'true'
\* (health: aria-expanded 'true' iff body 'nav-open' iff nav 'is-open').
C20_MenuConsistency ==
    IF script = "health"
    THEN /\ mobileToggle => (ariaExpanded = "true" <=> bodyLocked)
         /\ mobileMenu => (menuOpen <=> bodyLocked)
    ELSE /\ overlay => (menuOpen <=> overlayActive)
         /\ menuOpen <=> bodyLocked
         /\ mobileToggle => (menuOpen <=> ariaExpanded = "true")

\* C21: a step that handles Escape, a click on the close button, on the
\* overlay, on a menu link or on an anchor whose target exists leaves every
\* indicator of openness off, and leaves them all as they were when they
\* were off already; no step other than a click on the toggle button turns
\* an indicator on; a click on the toggle button flips the menu's marking
\* (health: the toggle's aria-expanded).
CloseTriggers ==
    {"escape", "closeClick", "overlayClick", "menuLinkClick", "anchorClick"}

MenuMarkedClosed ==
    ~menuOpen /\ ~overlayActive /\ ~bodyLocked /\ ariaExpanded # "true"

C22_MissingToggleTolerated ==
    [][(/\ lastOp' \in {"escape", "anchorClick", "anchorClickInert"}
        /\ ~mobileToggle \/ (script \in SpyScripts /\ ~overlay)) =>
          /\ raised' = raised
          /\ menuOpen' = menuOpen
          /\ overlayActive' = overlayActive
          /\ bodyLocked' = bodyLocked
          /\ ariaExpanded' = ariaExpanded]_vars

(***************************************************************************)
(* Claims about drag-to-scroll.                                            *)
(***************************************************************************)
\* C6: the adapter is Dragging (isDown) or Idle, Idle at first; it is
\* Dragging if and only if the most recent of mousedown / mouseup /
\* mouseleave was a mousedown, and while Dragging its origin is the pointer
\* x and the region offset of that mousedown.
C6_DragStateMachine ==
    /\ isDown \in BOOLEAN
    /\ isDown <=> lastPointer = "down"
    /\ isDown => (startX = downX /\ scrollLeft = downOffset)

C6_Witness ==
    /\ lastOp = "mousedown"
    /\ isDown
    /\ startX = 50
    /\ scrollLeft = 140

\* C7: every mousemove handled while Dragging assigns
\* originScrollOffset - (pointerX - originPointerX) * 2 to the region's
\* offset, the origin being that of the session's mousedown; the region then
\* stands at that value, kept within its scrollable range.
C7_DragOffsetFormula ==
    (lastOp = "mousemove" /\ isDown) =>
        /\ assigned = downOffset - (moveX - downX) * 2
        /\ containerScrollLeft = Clamp(assigned)

C7_Witness ==
    /\ lastOp = "mousemove"
    /\ isDown
    /\ downOffset = 100
    /\ downX = 50
    /\ moveX = 30
    /\ assigned = 140
    /\ containerScrollLeft = 140

\* C9: a mousemove handled while Idle leaves the region's offset, the
\* captured origin and the drag state unchanged.
C9_IdleMoveNoOp ==
    [][(lastOp' = "mousemove" /\ ~isDown) =>
          /\ containerScrollLeft' = containerScrollLeft
          /\ startX' = startX
          /\ scrollLeft' = scrollLeft
          /\ isDown' = isDown]_vars

C9_Witness ==
    /\ lastOp = "mousemove"
    /\ ~isDown
    /\ lastPointer = "leave"
    /\ moveX # downX
    /\ containerScrollLeft = 140

\* C19: while Dragging, the step that handles a mousemove itself assigns
\* originScrollOffset - (pointerX - originPointerX) * 2 to the region's
\* offset, for every mousemove, whether or not a scroll is waiting for its
\* event and whatever has been evaluated in the current display frame.
C19_DragUnthrottled ==
    [][(lastOp' = "mousemove" /\ isDown) =>
          /\ assigned' = scrollLeft - (moveX' - startX) * 2
          /\ containerScrollLeft' = Clamp(assigned')]_vars

C19_Witness ==
    /\ lastOp = "mousemove"
    /\ isDown
    /\ scrollPending
    /\ notifies = 1
    /\ startX = 50
    /\ scrollLeft = 100
    /\ moveX = 70
    /\ assigned = 60
    /\ containerScrollLeft = 60

(***************************************************************************)
(* Claims about optional elements.                                         *)
(***************************************************************************)
\* C15: on a page where any of the header, the scroll indicator and the
\* drag container is missing no handler throws; a missing element's state is
\* never touched; and the header, the indicator, the drag region, the
\* reveal elements and the menu that are present behave as on a page that
\* has all of them.
C15_MissingElements ==
    /\ ~raised
    /\ ~header => ~headerScrolled
    /\ ~scrollIndicator => indicatorOpacity = ""
    /\ ~scrollContainer =>
          /\ ~isDown /\ cursor = "" /\ lastPointer = "none"
          /\ containerScrollLeft = 0 /\ assigned = Undefined
    /\ (header /\ ~scrollPending) =>
          (headerScrolled <=> scrollY > (IF script = "health" THEN 100 ELSE 20))
    /\ (script = "production" /\ scrollIndicator /\ ~scrollPending) =>
          indicatorOpacity = (IF scrollY > 100 THEN "0" ELSE "0.8")
    /\ scrollContainer =>
          /\ isDown <=> lastPointer = "down"
          /\ (lastOp = "mousemove" /\ isDown) =>
                containerScrollLeft = Clamp(downOffset - (moveX - downX) * 2)
    /\ \A e \in reveals :
          /\ revealVisible[e] # revealHidden[e]
          /\ observed[e] <=> revealHidden[e]
    /\ (lastOp = "intersection" /\ lastEntry.isIntersecting) =>
          revealVisible[lastEntry.target]
    /\ menuOpen <=> ariaExpanded = "true"
    /\ lastOp = "escape" => ~menuOpen

C15_Witness ==
    /\ script = "production"
    /\ ~header
    /\ scrollIndicator
    /\ ~scrollContainer
    /\ lastOp = "scrollEvent"
    /\ scrollY = 600
    /\ indicatorOpacity = "0"
    /\ ~headerScrolled
    /\ revealVisible[1]
    /\ menuOpen

(***************************************************************************)
(* Claims about the theme.                                                 *)
(***************************************************************************)
\* C23: when the page has loaded, data-theme is the theme that was stored,
\* or the system preference if none was; when the page has loaded and after
\* every click on the theme button data-theme equals the stored theme; it
\* is always 'dark' or 'light'; after a click it differs from what it was
\* before the click, and after two clicks it is what it was before them.
C23_ThemePersistence ==
    /\ dataTheme \in {"dark", "light"}
    /\ lastOp \in {"init", "reload"} =>
          dataTheme = (IF storedAtLoad \in {"dark", "light"} THEN storedAtLoad
                       ELSE IF prefersDark THEN "dark" ELSE "light")
    /\ lastOp \in {"init", "reload", "themeClick"} => storedTheme = dataTheme
    /\ Len(themeTrail) >= 1 => dataTheme # themeTrail[Len(themeTrail)]
    /\ Len(themeTrail) = 2 => dataTheme = themeTrail[1]

C23_Witness ==
    /\ lastOp = "themeClick"
    /\ storedAtLoad = "dark"
    /\ ~prefersDark
    /\ themeTrail = <<"dark", "light">>
    /\ dataTheme = "dark"
    /\ storedTheme = "dark"
    /\ iconDarkDisplay = "block"

(***************************************************************************)
(* Claims about the language toggle.                                       *)
(***************************************************************************)
PrevPath == pathTrail[Len(pathTrail)]

\* After a click on an English page the browser is on the page's path with
\* '/hi' in front ('/hi/index.html' for the root) and that path is recognised
\* as Hindi; after a click on a page under '/hi/' it is on the path without
\* the leading '/hi'.
LangRedirects ==
    lastOp = "langClick" =>
        /\ ~IsHindi(PrevPath) =>
              /\ pathname = HiPrefix \o (IF PrevPath = Slash THEN IndexHtml
                                         ELSE PrevPath)
              /\ IsHindi(pathname)
              /\ langTextContent = "EN"
        /\ StartsWith(PrevPath, HiFolder) =>
              /\ pathname = SubSeq(PrevPath, 4, Len(PrevPath))
              /\ langTextContent = LangText(IsHindi(pathname))

\* C24 as stated: the redirects above, and two clicks from any English path
\* lead back to that path.
C24_RoundTripEveryPath ==
    /\ LangRedirects
    /\ (lastOp = "langClick" /\ Len(pathTrail) = 2 /\ ~IsHindi(pathTrail[1])) =>
          pathname = pathTrail[1]

\* C24: the redirects above, and two clicks from an English path lead back to
\* that path, except from the root path '/', from which they lead to
\* '/index.html'.
C24_RoundTripExceptRoot ==
    /\ LangRedirects
    /\ (lastOp = "langClick" /\ Len(pathTrail) = 2 /\ ~IsHindi(pathTrail[1])) =>
          pathname = (IF pathTrail[1] = Slash THEN IndexHtml ELSE pathTrail[1])

C24_Witness ==
    /\ lastOp = "langClick"
    /\ pathTrail = <<Slash, HiPrefix \o IndexHtml>>
    /\ pathname = IndexHtml
    /\ langTextContent = "HI"

====
